---- MODULE Spec2Model ----
(***************************************************************************)
(* Prismo: the risk scoring engine (rpn.ts), the architecture analyzer     *)
(* (analyzer.ts: the AI path and the pattern-based demo path) and the      *)
(* callers that drive them.                                                *)
(*                                                                         *)
(* Conventions of the model                                                *)
(*   - A JavaScript value that the code treats as a number is a record     *)
(*     [t, v]: Num(n) is the number n, undefined is a missing property,    *)
(*     NaN is the result of arithmetic on a missing value.                 *)
(*   - A text is a sequence of words; words are separated by single        *)
(*     spaces, so a regular expression with \b...\b and \s* is matched     *)
(*     word by word.  A component label is the sequence of its lower-cased *)
(*     words (<<"key", "vault">> is the string "key vault").               *)
(*   - A function that can throw returns [ok, value, error].               *)
(***************************************************************************)
EXTENDS Integers, Sequences, FiniteSets, TLC

VARIABLES
    apiKey,     \* process.env.ANTHROPIC_API_KEY: "" when not set
    pc,         \* "idle": no analysis running; "done": analyzeArchitecture settled
    input,      \* the ArchitectureInput of the last analyzeArchitecture call
    response,   \* what the external service answered in that call
    assembled,  \* the demoFailureModes of that call, before the sort and the cut
    outcome,    \* how the call settled: a result or an error
    requests,   \* outbound requests issued by that call
    call        \* a direct call of a function of rpn.ts and what it returned

vars == <<apiKey, pc, input, response, assembled, outcome, requests, call>>

\* ------------------------------------------------------------------ bounds

\* Integer arguments tried on calculateRPN range over (1 - ArgSlack)..(10 + ArgSlack).
ArgSlack == 2

\* The largest risk priority number: 10 * 10 * 10.
MaxRPN == 1000

\* ------------------------------------------------------ JavaScript values

Num(n) == [t |-> "number", v |-> n]

undefined == [t |-> "undefined", v |-> 0]

NaN == [t |-> "NaN", v |-> 0]

IsNum(x) == x.t = "number"

\* x < y on JavaScript values: false as soon as one side is not a number.
JsLt(x, y) == IsNum(x) /\ IsNum(y) /\ x.v < y.v

JsGt(x, y) == IsNum(x) /\ IsNum(y) /\ x.v > y.v

JsGe(x, y) == IsNum(x) /\ IsNum(y) /\ x.v >= y.v

\* x * y on JavaScript values: NaN as soon as one side is not a number.
JsMul(x, y) == IF IsNum(x) /\ IsNum(y) THEN Num(x.v * y.v) ELSE NaN

Return(v) == [ok |-> TRUE, value |-> v, error |-> ""]

Throw(msg) == [ok |-> FALSE, value |-> undefined, error |-> msg]

\* ------------------------------------------------------------------ rpn.ts

\* A missing upper bound on occurrence.
calculateRPN_noOccurrenceMax(severity, occurrence, detection) ==
    IF JsLt(severity, Num(1)) \/ JsGt(severity, Num(10))
    THEN Throw("Severity must be between 1 and 10")
    ELSE IF JsLt(occurrence, Num(1))
    THEN Throw("Occurrence must be between 1 and 10")
    ELSE IF JsLt(detection, Num(1)) \/ JsGt(detection, Num(10))
    THEN Throw("Detection must be between 1 and 10")
    ELSE Return(JsMul(JsMul(severity, occurrence), detection))

\* The product taken over two axes only.
calculateRPN_dropDetection(severity, occurrence, detection) ==
    IF JsLt(severity, Num(1)) \/ JsGt(severity, Num(10))
    THEN Throw("Severity must be between 1 and 10")
    ELSE IF JsLt(occurrence, Num(1)) \/ JsGt(occurrence, Num(10))
    THEN Throw("Occurrence must be between 1 and 10")
    ELSE IF JsLt(detection, Num(1)) \/ JsGt(detection, Num(10))
    THEN Throw("Detection must be between 1 and 10")
    ELSE Return(JsMul(severity, occurrence))

calculateRPN(severity, occurrence, detection) ==
    IF JsLt(severity, Num(1)) \/ JsGt(severity, Num(10))
    THEN Throw("Severity must be between 1 and 10")
    ELSE IF JsLt(occurrence, Num(1)) \/ JsGt(occurrence, Num(10))
    THEN Throw("Occurrence must be between 1 and 10")
    ELSE IF JsLt(detection, Num(1)) \/ JsGt(detection, Num(10))
    THEN Throw("Detection must be between 1 and 10")
    ELSE Return(JsMul(JsMul(severity, occurrence), detection))

\* The Critical band starting above 200 instead of at 200.
getRPNPriority_strict(rpn) ==
    IF JsGt(rpn, Num(200))
    THEN [level |-> "Critical", action |-> "Fix this sprint, escalate to leadership",
          color |-> "red"]
    ELSE IF JsGe(rpn, Num(100))
    THEN [level |-> "Medium", action |-> "Plan within quarter", color |-> "orange"]
    ELSE IF JsGe(rpn, Num(50))
    THEN [level |-> "Low", action |-> "Add to backlog", color |-> "yellow"]
    ELSE [level |-> "Minimal", action |-> "Document and monitor", color |-> "green"]

getRPNPriority(rpn) ==
    IF JsGe(rpn, Num(200))
    THEN [level |-> "Critical", action |-> "Fix this sprint, escalate to leadership",
          color |-> "red"]
    ELSE IF JsGe(rpn, Num(100))
    THEN [level |-> "Medium", action |-> "Plan within quarter", color |-> "orange"]
    ELSE IF JsGe(rpn, Num(50))
    THEN [level |-> "Low", action |-> "Add to backlog", color |-> "yellow"]
    ELSE [level |-> "Minimal", action |-> "Document and monitor", color |-> "green"]

\* x ?? y: y when x is missing.
nullish(x, y) == IF x = undefined THEN y ELSE x

\* Math.round((reduction / currentRPN) * 100) for integers and currentRPN > 0:
\* the integer nearest to the quotient. Where the exact quotient lies halfway
\* between two integers the double arithmetic of the expression decides which
\* of the two it is (57.49999999999999 for 23/40, 2.5 for 1/40), so both are
\* outcomes.
mathRoundPercent(reduction, currentRPN) ==
    LET lower == (100 * reduction) \div currentRPN
        rest == (100 * reduction) % currentRPN
    IN  IF 2 * rest < currentRPN THEN {lower}
        ELSE IF 2 * rest > currentRPN THEN {lower + 1}
        ELSE {lower, lower + 1}

negInfinity == [t |-> "-Infinity", v |-> 0]

\* The overrides left aside.
calculateMitigatedRPN_baselineOnly(currentRPN, newSeverity, newOccurrence, newDetection, currentScores) ==
    IF currentScores = undefined
    THEN {Throw("Current scores required to calculate mitigated RPN")}
    ELSE LET newRPN == calculateRPN(currentScores.severity, currentScores.occurrence,
                                    currentScores.detection)
             reduction == currentRPN - newRPN.value.v
         IN  IF ~newRPN.ok THEN {newRPN}
             ELSE {Return([newRPN |-> newRPN.value,
                           reduction |-> Num(reduction),
                           reductionPercent |-> percent]) :
                     percent \in IF currentRPN = 0 THEN {negInfinity}
                                 ELSE {Num(p) : p \in mathRoundPercent(reduction, currentRPN)}}

\* The baseline asked for only when an override is missing.
calculateMitigatedRPN_lazyBaseline(currentRPN, newSeverity, newOccurrence, newDetection, currentScores) ==
    IF currentScores = undefined
       /\ undefined \in {newSeverity, newOccurrence, newDetection}
    THEN {Throw("Current scores required to calculate mitigated RPN")}
    ELSE LET newRPN == calculateRPN(newSeverity, newOccurrence, newDetection)
             reduction == currentRPN - newRPN.value.v
         IN  IF ~newRPN.ok THEN {newRPN}
             ELSE {Return([newRPN |-> newRPN.value,
                           reduction |-> Num(reduction),
                           reductionPercent |-> percent]) :
                     percent \in IF currentRPN = 0 THEN {negInfinity}
                                 ELSE {Num(p) : p \in mathRoundPercent(reduction, currentRPN)}}

\* The outcomes of calculateMitigatedRPN on a non-negative integer currentRPN:
\* the error it throws, or the object it returns.
calculateMitigatedRPN(currentRPN, newSeverity, newOccurrence, newDetection, currentScores) ==
    IF currentScores = undefined
    THEN {Throw("Current scores required to calculate mitigated RPN")}
    ELSE LET s == nullish(newSeverity, currentScores.severity)
             o == nullish(newOccurrence, currentScores.occurrence)
             d == nullish(newDetection, currentScores.detection)
             newRPN == calculateRPN(s, o, d)
             reduction == currentRPN - newRPN.value.v
         IN  IF ~newRPN.ok THEN {newRPN}
             ELSE {Return([newRPN |-> newRPN.value,
                           reduction |-> Num(reduction),
                           reductionPercent |-> percent]) :
                     percent \in IF currentRPN = 0 THEN {negInfinity}
                                 ELSE {Num(p) : p \in mathRoundPercent(reduction, currentRPN)}}

\* ------------------------------------------------ analyzer.ts: the demo path

Depths == {"quick", "standard", "deep"}

\* String.prototype.toLowerCase on the words of the vocabulary.
toLowerCase(w) ==
    CASE w = "Web" -> "web"
      [] w = "App" -> "app"
      [] w = "REST" -> "rest"
      [] w = "API" -> "api"
      [] w = "Redis" -> "redis"
      [] w = "Cache" -> "cache"
      [] w = "MongoDB" -> "mongodb"
      [] w = "DB" -> "db"
      [] w = "Key" -> "key"
      [] w = "Vault" -> "vault"
      [] OTHER -> w

\* String.prototype.toUpperCase on the words of the component labels.
toUpperCase(w) ==
    CASE w = "web" -> "WEB"
      [] w = "app" -> "APP"
      [] w = "frontend" -> "FRONTEND"
      [] w = "api" -> "API"
      [] w = "backend" -> "BACKEND"
      [] w = "database" -> "DATABASE"
      [] w = "db" -> "DB"
      [] w = "cache" -> "CACHE"
      [] w = "redis" -> "REDIS"
      [] w = "key" -> "KEY"
      [] w = "vault" -> "VAULT"
      [] w = "secrets" -> "SECRETS"
      [] OTHER -> w

\* The eight regular expressions, each the list of its alternatives word by
\* word: x\s*y matches the single word xy and the two words x y.
componentPatterns ==
    << << <<"webapp">>, <<"web", "app">>, <<"frontend">>, <<"ui">> >>,
       << <<"api">>, <<"backend">>, <<"restapi">>, <<"rest", "api">>, <<"graphql">> >>,
       << <<"database">>, <<"db">>, <<"postgres">>, <<"mysql">>, <<"mongodb">>,
          <<"documentdb">> >>,
       << <<"cache">>, <<"redis">>, <<"memcached">> >>,
       << <<"queue">>, <<"rabbitmq">>, <<"kafka">>, <<"sqs">> >>,
       << <<"keyvault">>, <<"key", "vault">>, <<"secrets">>, <<"hsm">> >>,
       << <<"loadbalancer">>, <<"load", "balancer">>, <<"lb">>, <<"nginx">>,
          <<"haproxy">> >>,
       << <<"storage">>, <<"blob">>, <<"s3">> >> >>

RECURSIVE lowerCased(_)
\* The text with every word lower-cased: the i flag of the patterns, and the
\* toLowerCase() applied to each match.
lowerCased(text) ==
    IF text = <<>> THEN <<>>
    ELSE <<toLowerCase(Head(text))>> \o lowerCased(Tail(text))

\* Whether alternative alt matches the lower-cased text at word i.
MatchesAt(text, alt, i) ==
    /\ i + Len(alt) - 1 <= Len(text)
    /\ \A j \in 1..Len(alt) : text[i + j - 1] = alt[j]

RECURSIVE MatchFrom(_, _, _)
\* text.match(pattern) with the g flag, from word i on: the matches from left
\* to right, none overlapping.
MatchFrom(text, pattern, i) ==
    IF i > Len(text) THEN <<>>
    ELSE LET hits == {k \in DOMAIN pattern : MatchesAt(text, pattern[k], i)}
         IN  IF hits = {} THEN MatchFrom(text, pattern, i + 1)
             ELSE LET n == Len(pattern[CHOOSE h \in hits : \A g \in hits : h <= g])
                  IN  <<SubSeq(text, i, i + n - 1)>> \o MatchFrom(text, pattern, i + n)

RECURSIVE MatchAll(_, _)
\* The loop over componentPatterns on the lower-cased text: the matches of
\* pattern p, then of the next.
MatchAll(text, p) ==
    IF p > Len(componentPatterns) THEN <<>>
    ELSE MatchFrom(text, componentPatterns[p], 1) \o MatchAll(text, p + 1)

\* The default components are not pushed when nothing was detected.
extractComponents_noDefault(architecture) ==
    MatchAll(lowerCased(architecture), 1)

\* The detected component labels, or the three defaults when there is none.
extractComponents(architecture) ==
    LET components == MatchAll(lowerCased(architecture), 1)
    IN  IF Len(components) = 0
        THEN << <<"web", "app">>, <<"api">>, <<"database">> >>
        ELSE components

\* The matches kept as they come, one entry for each mention.
Unique_keepAll(s) == s

RECURSIVE Unique(_)
\* [...new Set(s)]: the distinct elements of s in order of first appearance.
Unique(s) ==
    IF s = <<>> THEN <<>>
    ELSE LET front == Unique(SubSeq(s, 1, Len(s) - 1))
             last == s[Len(s)]
         IN  IF \E i \in DOMAIN front : front[i] = last THEN front
             ELSE Append(front, last)

\* component.toUpperCase().replace(/\s+/g, "-")
ComponentDisplay(component) ==
    IF Len(component) = 1 THEN toUpperCase(component[1])
    ELSE toUpperCase(component[1]) \o "-" \o toUpperCase(component[2])

\* The table of canned failure modes: the templates of a detected component
\* label, none for a label the table has no entry for.
componentRisks(component) ==
    CASE component = <<"web", "app">> ->
        << [failureMode |-> "Session management failure",
            effect |-> "Users logged out unexpectedly, lost work",
            cause |-> "Session timeout misconfiguration or token expiration",
            severity |-> Num(6), occurrence |-> Num(5), detection |-> Num(4),
            category |-> "Authentication",
            tacticalMitigation |-> <<"Review session timeout settings", "Add session warning notifications">>,
            strategicMitigation |-> <<"Implement sliding session expiration", "Add session persistence layer">>] >>
      [] component = <<"frontend">> ->
        << [failureMode |-> "JavaScript bundle too large",
            effect |-> "Slow page loads, poor user experience",
            cause |-> "Unoptimized dependencies and no code splitting",
            severity |-> Num(5), occurrence |-> Num(6), detection |-> Num(3),
            category |-> "Performance",
            tacticalMitigation |-> <<"Analyze bundle with webpack-analyzer", "Remove unused dependencies">>,
            strategicMitigation |-> <<"Implement code splitting", "Add CDN for static assets">>] >>
      [] component = <<"api">> ->
        << [failureMode |-> "Rate limiting not implemented",
            effect |-> "API overwhelmed, service degradation for all users",
            cause |-> "Missing rate limiting middleware",
            severity |-> Num(8), occurrence |-> Num(4), detection |-> Num(6),
            category |-> "Availability",
            tacticalMitigation |-> <<"Add basic IP-based rate limiting", "Monitor request volumes">>,
            strategicMitigation |-> <<"Implement tiered rate limiting", "Add API gateway with throttling">>],
           [failureMode |-> "No request timeout configured",
            effect |-> "Thread pool exhaustion, cascading failures",
            cause |-> "Long-running requests holding connections",
            severity |-> Num(7), occurrence |-> Num(5), detection |-> Num(7),
            category |-> "Availability",
            tacticalMitigation |-> <<"Add timeout middleware", "Set database query timeouts">>,
            strategicMitigation |-> <<"Implement circuit breakers", "Add request deadline propagation">>] >>
      [] component = <<"backend">> ->
        << [failureMode |-> "Unhandled exception crashes service",
            effect |-> "Complete service outage until restart",
            cause |-> "Missing global error handler",
            severity |-> Num(9), occurrence |-> Num(3), detection |-> Num(5),
            category |-> "Availability",
            tacticalMitigation |-> <<"Add global exception handler", "Implement graceful shutdown">>,
            strategicMitigation |-> <<"Add process supervisor", "Implement health checks with auto-restart">>] >>
      [] component = <<"database">> ->
        << [failureMode |-> "Single database instance (no replication)",
            effect |-> "Complete data loss if instance fails",
            cause |-> "No high availability configuration",
            severity |-> Num(10), occurrence |-> Num(2), detection |-> Num(8),
            category |-> "Data Integrity",
            tacticalMitigation |-> <<"Enable automated backups", "Document recovery procedure">>,
            strategicMitigation |-> <<"Configure read replicas", "Implement multi-region deployment">>],
           [failureMode |-> "Connection pool exhaustion",
            effect |-> "New requests fail, service degradation",
            cause |-> "Connection leaks or undersized pool",
            severity |-> Num(8), occurrence |-> Num(4), detection |-> Num(5),
            category |-> "Availability",
            tacticalMitigation |-> <<"Monitor connection pool metrics", "Review connection lifecycle">>,
            strategicMitigation |-> <<"Implement connection pool sizing automation", "Add circuit breaker">>] >>
      [] component = <<"db">> ->
        << [failureMode |-> "No query performance monitoring",
            effect |-> "Slow queries degrade overall performance",
            cause |-> "Missing query analysis tooling",
            severity |-> Num(6), occurrence |-> Num(6), detection |-> Num(8),
            category |-> "Observability",
            tacticalMitigation |-> <<"Enable slow query logging", "Review top queries manually">>,
            strategicMitigation |-> <<"Implement APM with query tracing", "Add automated index recommendations">>] >>
      [] component = <<"cache">> ->
        << [failureMode |-> "Cache invalidation failure",
            effect |-> "Stale data shown to users",
            cause |-> "Missing or incorrect cache invalidation logic",
            severity |-> Num(6), occurrence |-> Num(5), detection |-> Num(6),
            category |-> "Data Integrity",
            tacticalMitigation |-> <<"Review cache TTL settings", "Add manual cache clear endpoint">>,
            strategicMitigation |-> <<"Implement event-driven cache invalidation", "Add cache versioning">>] >>
      [] component = <<"redis">> ->
        << [failureMode |-> "Redis memory exhaustion",
            effect |-> "Cache evictions, performance degradation",
            cause |-> "No memory limits or eviction policy",
            severity |-> Num(7), occurrence |-> Num(4), detection |-> Num(5),
            category |-> "Performance",
            tacticalMitigation |-> <<"Set maxmemory limit", "Configure eviction policy">>,
            strategicMitigation |-> <<"Implement cache tiering", "Add memory usage alerting">>] >>
      [] component = <<"key", "vault">> ->
        << [failureMode |-> "Secret expiration not monitored",
            effect |-> "Service outage when credentials expire",
            cause |-> "No alerting on secret expiry dates",
            severity |-> Num(9), occurrence |-> Num(4), detection |-> Num(7),
            category |-> "Configuration",
            tacticalMitigation |-> <<"Document all secret expiry dates", "Set calendar reminders">>,
            strategicMitigation |-> <<"Implement automated secret rotation", "Add expiry monitoring alerts">>] >>
      [] component = <<"secrets">> ->
        << [failureMode |-> "Secrets in environment variables",
            effect |-> "Credentials leaked in logs or crash dumps",
            cause |-> "Insecure secret storage pattern",
            severity |-> Num(9), occurrence |-> Num(3), detection |-> Num(8),
            category |-> "Security",
            tacticalMitigation |-> <<"Audit logging for secret exposure", "Rotate exposed credentials">>,
            strategicMitigation |-> <<"Migrate to secret manager", "Implement secret scanning in CI">>] >>
      [] OTHER -> <<>>

\* The risks appended whatever components were detected.
generalRisks ==
    << [component |-> "Infrastructure",
        failureMode |-> "No centralized logging",
        effect |-> "Unable to diagnose issues, extended MTTR",
        cause |-> "Logs scattered across multiple systems",
        severity |-> Num(6), occurrence |-> Num(5), detection |-> Num(7),
        category |-> "Observability",
        tacticalMitigation |-> <<"Set up log aggregation", "Standardize log format">>,
        strategicMitigation |-> <<"Implement ELK/Datadog/similar", "Add log-based alerting">>],
       [component |-> "Monitoring",
        failureMode |-> "Missing health check endpoints",
        effect |-> "Load balancer routes traffic to unhealthy instances",
        cause |-> "No health check implementation",
        severity |-> Num(7), occurrence |-> Num(4), detection |-> Num(6),
        category |-> "Availability",
        tacticalMitigation |-> <<"Add basic /health endpoint", "Configure load balancer health checks">>,
        strategicMitigation |-> <<"Implement deep health checks", "Add dependency health verification">>],
       [component |-> "Deployment",
        failureMode |-> "No rollback procedure",
        effect |-> "Extended outage during bad deployments",
        cause |-> "Missing deployment automation",
        severity |-> Num(8), occurrence |-> Num(3), detection |-> Num(5),
        category |-> "Availability",
        tacticalMitigation |-> <<"Document manual rollback steps", "Keep previous version artifacts">>,
        strategicMitigation |-> <<"Implement blue-green deployments", "Add automated rollback triggers">>] >>

\* String(n).padStart(3, "0")
padStart3(n) ==
    LET s == ToString(n)
    IN  IF Len(s) = 1 THEN "00" \o s
        ELSE IF Len(s) = 2 THEN "0" \o s
        ELSE s

\* The FailureMode pushed for template risk under the display label component,
\* numbered riskIndex.
FailureModeOf(risk, component, riskIndex) ==
    LET rpn == calculateRPN(risk.severity, risk.occurrence, risk.detection).value
        priority == getRPNPriority(rpn)
    IN  [id |-> "RISK-" \o padStart3(riskIndex),
         component |-> component,
         failureMode |-> risk.failureMode,
         effect |-> risk.effect,
         cause |-> risk.cause,
         severity |-> risk.severity,
         occurrence |-> risk.occurrence,
         detection |-> risk.detection,
         rpn |-> rpn,
         priority |-> priority.level,
         category |-> risk.category,
         tacticalMitigation |-> risk.tacticalMitigation,
         strategicMitigation |-> risk.strategicMitigation]

\* The label "mongodb" looked up under "database" and "rest api" under "api".
lookupRisks_byFamily(component) ==
    componentRisks(IF component = <<"mongodb">> THEN <<"database">>
                   ELSE IF component = <<"rest", "api">> THEN <<"api">>
                   ELSE component)

\* componentRisks[component]: the templates of the label exactly as matched.
lookupRisks(component) == componentRisks(component)

RECURSIVE ComponentEntries(_)
\* The templates of each component of the list, in order, each with the
\* display label of the component it was looked up under.
ComponentEntries(components) ==
    IF components = <<>> THEN <<>>
    ELSE LET component == Head(components)
             risks == lookupRisks(component)
             display == ComponentDisplay(component)
         IN  [i \in 1..Len(risks) |-> [risk |-> risks[i], component |-> display]]
                 \o ComponentEntries(Tail(components))

GeneralEntries ==
    [i \in 1..Len(generalRisks) |->
        [risk |-> generalRisks[i], component |-> generalRisks[i].component]]
        \o <<>>

RECURSIVE Numbered(_, _)
\* The failure modes pushed for the entries, numbered from riskIndex on
\* (riskIndex++).
Numbered(entries, riskIndex) ==
    IF entries = <<>> THEN <<>>
    ELSE <<FailureModeOf(Head(entries).risk, Head(entries).component, riskIndex)>>
             \o Numbered(Tail(entries), riskIndex + 1)

\* The general risks are appended only when no component template was.
demoFailureModes_generalOnlyIfEmpty(architecture) ==
    LET found == ComponentEntries(Unique(extractComponents(architecture)))
    IN  Numbered(IF found = <<>> THEN GeneralEntries ELSE found, 1)

\* The defaults taken whenever the detected labels bring no template.
demoFailureModes_defaultIfNoTemplate(architecture) ==
    LET found == ComponentEntries(Unique(extractComponents(architecture)))
        defaults == ComponentEntries(<< <<"web", "app">>, <<"api">>, <<"database">> >>)
    IN  Numbered((IF found = <<>> THEN defaults ELSE found) \o GeneralEntries, 1)

\* The list assembled before sorting: the templates of the unique detected
\* components, then the general risks, numbered in that order from 1.
demoFailureModes(architecture) ==
    Numbered(ComponentEntries(Unique(extractComponents(architecture)))
                 \o GeneralEntries, 1)

RECURSIVE sortByRpnDescending_tiesReversed(_)
\* A sort that puts an element before the elements of equal rpn.
sortByRpnDescending_tiesReversed(list) ==
    IF list = <<>> THEN <<>>
    ELSE LET sorted == sortByRpnDescending_tiesReversed(SubSeq(list, 1, Len(list) - 1))
             x == list[Len(list)]
             k == Cardinality({j \in DOMAIN sorted : sorted[j].rpn.v > x.rpn.v})
         IN  SubSeq(sorted, 1, k) \o <<x>> \o SubSeq(sorted, k + 1, Len(sorted))

RECURSIVE sortByRpnDescending(_)
\* failureModes.sort((a, b) => b.rpn - a.rpn) on numbers: the stable sort,
\* highest rpn first, equal rpn in the order they had.  Each element goes
\* behind the elements before it whose rpn is not lower.
sortByRpnDescending(list) ==
    IF list = <<>> THEN <<>>
    ELSE LET sorted == sortByRpnDescending(SubSeq(list, 1, Len(list) - 1))
             x == list[Len(list)]
             k == Cardinality({j \in DOMAIN sorted : sorted[j].rpn.v >= x.rpn.v})
         IN  SubSeq(sorted, 1, k) \o <<x>> \o SubSeq(sorted, k + 1, Len(sorted))

Orderings(list) ==
    {[k \in 1..Len(list) |-> list[p[k]]] :
        p \in {q \in [1..Len(list) -> 1..Len(list)] :
                  \A a, b \in 1..Len(list) : a # b => q[a] # q[b]}}

\* What the sort can leave: with a NaN rpn the comparator returns NaN, it is no
\* consistent ordering and the order of the result is implementation-defined.
SortOutcomes(list) ==
    IF \E i \in DOMAIN list : ~IsNum(list[i].rpn)
    THEN Orderings(list)
    ELSE {sortByRpnDescending(list)}

\* A cap of 10 at depth standard.
limits_standard10(depth) ==
    CASE depth = "quick" -> 8
      [] depth = "standard" -> 10
      [] depth = "deep" -> 25

\* A cap of 7 at depth quick.
limits_quick7(depth) ==
    CASE depth = "quick" -> 7
      [] depth = "standard" -> 15
      [] depth = "deep" -> 25

limits(depth) ==
    CASE depth = "quick" -> 8
      [] depth = "standard" -> 15
      [] depth = "deep" -> 25

Min(a, b) == IF a <= b THEN a ELSE b

\* Array.prototype.slice(0, n)
slice(list, n) == SubSeq(list, 1, Min(n, Len(list)))

\* The summary of a list of failure modes.
\* The top risk areas taken from the whole list.
summaryOf_allCategories(list) ==
    [totalRisks |-> Len(list),
     criticalRisks |-> Cardinality({i \in DOMAIN list : JsGe(list[i].rpn, Num(200))}),
     mediumRisks |-> Cardinality({i \in DOMAIN list :
                        JsGe(list[i].rpn, Num(100)) /\ JsLt(list[i].rpn, Num(200))}),
     lowRisks |-> Cardinality({i \in DOMAIN list :
                        JsGe(list[i].rpn, Num(50)) /\ JsLt(list[i].rpn, Num(100))}),
     minimalRisks |-> Cardinality({i \in DOMAIN list : JsLt(list[i].rpn, Num(50))}),
     topRiskAreas |-> Unique([i \in 1..Len(list) |-> list[i].category])]

summaryOf(list) ==
    [totalRisks |-> Len(list),
     criticalRisks |-> Cardinality({i \in DOMAIN list : JsGe(list[i].rpn, Num(200))}),
     mediumRisks |-> Cardinality({i \in DOMAIN list :
                        JsGe(list[i].rpn, Num(100)) /\ JsLt(list[i].rpn, Num(200))}),
     lowRisks |-> Cardinality({i \in DOMAIN list :
                        JsGe(list[i].rpn, Num(50)) /\ JsLt(list[i].rpn, Num(100))}),
     minimalRisks |-> Cardinality({i \in DOMAIN list : JsLt(list[i].rpn, Num(50))}),
     topRiskAreas |-> Unique([i \in 1..Min(5, Len(list)) |-> list[i].category])]

demoRecommendations ==
    <<"Prioritize fixing Critical and Medium priority risks within this quarter",
      "Implement centralized observability to improve detection scores",
      "Review single points of failure and add redundancy",
      "Document runbooks for top 5 failure modes",
      "Schedule quarterly pre-mortem reviews to track progress">>

\* The depth limit taken before the sort.
generateDemoAnalysis_sliceBeforeSort(in, now) ==
    LET limited == sortByRpnDescending(
                       slice(demoFailureModes(in.architecture), limits(in.depth)))
    IN  [summary |-> summaryOf(limited),
         failureModes |-> limited,
         recommendations |-> demoRecommendations,
         analysisDepth |-> in.depth,
         timestamp |-> now]

\* The ids given again after the sort and the cut, by position.
generateDemoAnalysis_renumbered(in, now) ==
    LET sorted == sortByRpnDescending(demoFailureModes(in.architecture))
        cut == slice(sorted, limits(in.depth))
        limited == [i \in DOMAIN cut |-> [cut[i] EXCEPT !.id = "RISK-" \o padStart3(i)]]
    IN  [summary |-> summaryOf(limited),
         failureModes |-> limited,
         recommendations |-> demoRecommendations,
         analysisDepth |-> in.depth,
         timestamp |-> now]

generateDemoAnalysis(in, now) ==
    LET sorted == sortByRpnDescending(demoFailureModes(in.architecture))
        limited == slice(sorted, limits(in.depth))
    IN  [summary |-> summaryOf(limited),
         failureModes |-> limited,
         recommendations |-> demoRecommendations,
         analysisDepth |-> in.depth,
         timestamp |-> now]

\* ------------------------------------------------- analyzer.ts: the AI path

\* The enriched failure mode of item fm at position index (from 0) of the
\* parsed response; calculateRPN's error when it throws.
enrich(fm, index) ==
    LET r == calculateRPN(fm.severity, fm.occurrence, fm.detection)
        priority == getRPNPriority(r.value)
    IN  IF ~r.ok THEN Throw(r.error)
        ELSE Return([id |-> IF fm.id # "" THEN fm.id
                            ELSE "RISK-" \o padStart3(index + 1),
                     component |-> fm.component,
                     failureMode |-> fm.failureMode,
                     effect |-> fm.effect,
                     cause |-> fm.cause,
                     severity |-> fm.severity,
                     occurrence |-> fm.occurrence,
                     detection |-> fm.detection,
                     rpn |-> r.value,
                     priority |-> priority.level,
                     category |-> fm.category,
                     tacticalMitigation |-> fm.tacticalMitigation,
                     strategicMitigation |-> fm.strategicMitigation])

\* parsed.failureModes.map(...): the enriched list, or the error of the first
\* item whose scores calculateRPN rejects.
enrichAll(items) ==
    LET bad == {i \in DOMAIN items : ~enrich(items[i], i - 1).ok}
    IN  IF bad # {}
        THEN Throw(enrich(items[CHOOSE i \in bad : \A j \in bad : i <= j], 0).error)
        ELSE Return([i \in DOMAIN items |-> enrich(items[i], i - 1).value])

Failed(msg) == [kind |-> "error", error |-> msg]

Succeeded(result) == [kind |-> "result", result |-> result]

\* A catch block that answers a failed call with the demo analysis.
aiOutcomes_demoFallback(in, resp, now) ==
    IF resp.kind # "json" THEN {Succeeded(generateDemoAnalysis(in, now))}
    ELSE LET mapped == enrichAll(resp.failureModes)
         IN  IF ~mapped.ok THEN {Failed(mapped.error)}
             ELSE {Succeeded([summary |-> summaryOf(failureModes),
                              failureModes |-> failureModes,
                              recommendations |-> resp.recommendations,
                              analysisDepth |-> in.depth,
                              timestamp |-> now]) :
                      failureModes \in SortOutcomes(mapped.value)}

\* How the body of the try block settles on response resp: the results it can
\* return, or the error it rethrows.
aiOutcomes(in, resp, now) ==
    CASE resp.kind = "transport_error" -> {Failed("fetch failed")}
      [] resp.kind = "http_error" -> {Failed("API request failed")}
      [] resp.kind = "no_content" -> {Failed("No content in API response")}
      [] resp.kind = "bad_json" -> {Failed("Unexpected token in JSON")}
      [] resp.kind = "json" ->
            LET mapped == enrichAll(resp.failureModes)
            IN  IF ~mapped.ok THEN {Failed(mapped.error)}
                ELSE {Succeeded([summary |-> summaryOf(failureModes),
                                 failureModes |-> failureModes,
                                 recommendations |-> resp.recommendations,
                                 analysisDepth |-> in.depth,
                                 timestamp |-> now]) :
                         failureModes \in SortOutcomes(mapped.value)}

\* ------------------------------------------- direct calls of rpn.ts (SpecRPN)

ScoreArgs == (1 - ArgSlack)..(10 + ArgSlack)

RpnArgs == 0..(MaxRPN + ArgSlack)

\* An override of calculateMitigatedRPN: left out, or an integer.
OverrideArgs == {undefined} \cup {Num(n) : n \in ScoreArgs}

\* Its currentRPN.
CurrentRpnArgs == {0, 1, 40, 240, MaxRPN}

\* Its currentScores: left out, or a triple.
BaselineArgs ==
    {undefined}
        \cup {[severity |-> Num(t[1]), occurrence |-> Num(t[2]), detection |-> Num(t[3])] :
                 t \in {<<8, 5, 6>>, <<1, 1, 1>>, <<10, 10, 10>>}}

NoCall == [fn |-> "none", args |-> <<>>, done |-> FALSE, ret |-> Return(undefined)]

NoInput == [architecture |-> <<>>, depth |-> "standard"]

NoResponse == [kind |-> "none"]

NoOutcome == [kind |-> "none"]

\* No analysis is running and none has run.
AnalyzerIdle ==
    /\ pc = "idle"
    /\ input = NoInput
    /\ response = NoResponse
    /\ assembled = <<>>
    /\ outcome = NoOutcome
    /\ requests = 0

InitRPN ==
    /\ apiKey = ""
    /\ AnalyzerIdle
    /\ \/ \E s \in ScoreArgs, o \in ScoreArgs, d \in ScoreArgs :
             call = [fn |-> "calculateRPN", args |-> <<s, o, d>>, done |-> FALSE,
                     ret |-> Return(undefined)]
       \/ \E rpn \in RpnArgs :
             call = [fn |-> "getRPNPriority", args |-> <<rpn>>, done |-> FALSE,
                     ret |-> Return(undefined)]
       \/ \E currentRPN \in CurrentRpnArgs, s \in OverrideArgs, o \in OverrideArgs,
                d \in OverrideArgs, currentScores \in BaselineArgs :
             call = [fn |-> "calculateMitigatedRPN",
                     args |-> <<currentRPN, s, o, d, currentScores>>,
                     done |-> FALSE, ret |-> Return(undefined)]

CallCalculateRPN ==
    /\ call.fn = "calculateRPN"
    /\ ~call.done
    /\ call' = [call EXCEPT !.done = TRUE,
                            !.ret = calculateRPN(Num(call.args[1]), Num(call.args[2]),
                                                 Num(call.args[3]))]
    /\ UNCHANGED <<apiKey, pc, input, response, assembled, outcome, requests>>

CallGetRPNPriority ==
    /\ call.fn = "getRPNPriority"
    /\ ~call.done
    /\ call' = [call EXCEPT !.done = TRUE,
                            !.ret = Return(getRPNPriority(Num(call.args[1])))]
    /\ UNCHANGED <<apiKey, pc, input, response, assembled, outcome, requests>>

CallCalculateMitigatedRPN ==
    /\ call.fn = "calculateMitigatedRPN"
    /\ ~call.done
    /\ \E ret \in calculateMitigatedRPN(call.args[1], call.args[2], call.args[3],
                                         call.args[4], call.args[5]) :
          call' = [call EXCEPT !.done = TRUE, !.ret = ret]
    /\ UNCHANGED <<apiKey, pc, input, response, assembled, outcome, requests>>

NextRPN ==
    \/ CallCalculateRPN
    \/ CallGetRPNPriority
    \/ CallCalculateMitigatedRPN

SpecRPN == InitRPN /\ [][NextRPN]_vars

\* A finished call of calculateRPN.
RpnReturned == call.fn = "calculateRPN" /\ call.done

InRange(n) == n \in 1..10

\* C2: for all integers s, o, d in [1,10] calculateRPN(s, o, d) returns s*o*d
\* without error, the result lies in [1,1000], and calculateRPN(9,4,7) is 252.
C2_ProductInRange ==
    (RpnReturned /\ \A i \in 1..3 : InRange(call.args[i]))
        => /\ call.ret.ok
           /\ call.ret.value = Num(call.args[1] * call.args[2] * call.args[3])
           /\ call.ret.value.v \in 1..MaxRPN
           /\ (call.args = <<9, 4, 7>> => call.ret.value = Num(252))

C2_Witness == RpnReturned /\ call.args = <<9, 4, 7>> /\ call.ret.value = Num(252)

\* C3: when at least one of the integers s, o, d lies outside [1,10] (0, 11,
\* a negative number), calculateRPN raises an error and returns no value,
\* whatever the other two are.
C3_OutOfRangeThrows ==
    (RpnReturned /\ \E i \in 1..3 : ~InRange(call.args[i]))
        => /\ ~call.ret.ok
           /\ call.ret.value = undefined
           /\ call.ret.error \in {"Severity must be between 1 and 10",
                                  "Occurrence must be between 1 and 10",
                                  "Detection must be between 1 and 10"}

C3_Witness == RpnReturned /\ call.args = <<5, 11, 5>> /\ ~call.ret.ok

\* A finished call of getRPNPriority on an rpn of [1,1000].
PriorityReturned ==
    call.fn = "getRPNPriority" /\ call.done /\ call.args[1] \in 1..MaxRPN

\* The band and the action the documentation gives for an rpn.
BandOf(n) ==
    CASE n >= 200 -> [level |-> "Critical", action |-> "Fix this sprint, escalate to leadership"]
      [] n >= 100 /\ n <= 199 -> [level |-> "Medium", action |-> "Plan within quarter"]
      [] n >= 50 /\ n <= 99 -> [level |-> "Low", action |-> "Add to backlog"]
      [] n <= 49 -> [level |-> "Minimal", action |-> "Document and monitor"]

\* C4: getRPNPriority is total on [1,1000] and its bands are exact: rpn >= 200
\* is Critical, 100..199 Medium, 50..99 Low, 1..49 Minimal, each level with its
\* fixed recommended action.
C4_ExactBands ==
    PriorityReturned
        => /\ call.ret.ok
           /\ call.ret.value.level = BandOf(call.args[1]).level
           /\ call.ret.value.action = BandOf(call.args[1]).action
           /\ Cardinality({l \in {"Critical", "Medium", "Low", "Minimal"} :
                              call.ret.value.level = l}) = 1

C4_Witness ==
    PriorityReturned /\ call.args[1] = 200 /\ call.ret.value.level = "Critical"

\* A finished call of calculateMitigatedRPN.
MitigatedReturned == call.fn = "calculateMitigatedRPN" /\ call.done

\* The override is left out or an integer of [1,10].
ValidOverride(x) == x = undefined \/ (IsNum(x) /\ x.v \in 1..10)

\* The value of an axis after the overrides.
Effective(override, baseline) == IF override = undefined THEN baseline.v ELSE override.v

\* C14: with a baseline triple, overrides in [1,10] on any subset of the axes
\* and a positive currentRPN, calculateMitigatedRPN returns newRPN, the product
\* of the effective triple (the override where given, the baseline value
\* otherwise), reduction = currentRPN - newRPN and reductionPercent, an integer
\* nearest to 100 * reduction / currentRPN.
C14_MitigatedFromEffectiveTriple ==
    (/\ MitigatedReturned
     /\ call.args[5] # undefined
     /\ call.args[1] > 0
     /\ \A i \in 2..4 : ValidOverride(call.args[i]))
        => LET currentRPN == call.args[1]
               product == Effective(call.args[2], call.args[5].severity)
                            * Effective(call.args[3], call.args[5].occurrence)
                            * Effective(call.args[4], call.args[5].detection)
               distance == 100 * (currentRPN - product)
                             - call.ret.value.reductionPercent.v * currentRPN
           IN  /\ call.ret.ok
               /\ call.ret.value.newRPN = Num(product)
               /\ call.ret.value.reduction = Num(currentRPN - product)
               /\ IsNum(call.ret.value.reductionPercent)
               /\ 2 * distance <= currentRPN
               /\ -2 * distance <= currentRPN

\* 240 mitigated to 8 * 2 * 6: newRPN 96, reduction 144, 60 percent.
C14_Witness ==
    /\ MitigatedReturned
    /\ call.args = <<240, undefined, Num(2), undefined,
                     [severity |-> Num(8), occurrence |-> Num(5), detection |-> Num(6)]>>
    /\ call.ret.value = [newRPN |-> Num(96), reduction |-> Num(144),
                         reductionPercent |-> Num(60)]

\* C15: without a baseline triple calculateMitigatedRPN fails with the
\* precondition error and returns no result, for every currentRPN and every
\* combination of overrides, all three given included.
C15_BaselineRequired ==
    (MitigatedReturned /\ call.args[5] = undefined)
        => /\ ~call.ret.ok
           /\ call.ret.value = undefined
           /\ call.ret.error = "Current scores required to calculate mitigated RPN"

\* All three overrides given, no baseline.
C15_Witness ==
    /\ MitigatedReturned
    /\ call.args = <<240, Num(8), Num(2), Num(6), undefined>>
    /\ ~call.ret.ok

\* ----------------------------------------------------------------- inputs

\* Longest text made of arbitrary words of the vocabulary.
MaxWords == 2

\* Most failure modes in a response of the external service.
MaxItems == 2

Words ==
    {"web", "app", "webapp", "API", "api", "REST", "backend", "database", "db",
     "MongoDB", "cache", "queue", "kafka", "nginx", "s3", "with"}

Phrases ==
    << <<"Web", "App">>, <<"frontend">>, <<"REST", "API">>, <<"api">>,
       <<"backend">>, <<"Redis", "Cache">>, <<"MongoDB">>, <<"database">>,
       <<"DB">>, <<"Key", "Vault">>, <<"secrets">> >>

RECURSIVE JoinPhrases(_, _)
\* The phrases whose index is in chosen, in the order of Phrases from i on.
JoinPhrases(chosen, i) ==
    IF i > Len(Phrases) THEN <<>>
    ELSE (IF i \in chosen THEN Phrases[i] ELSE <<>>) \o JoinPhrases(chosen, i + 1)

\* The architecture texts analysed: every text of at most MaxWords words, and
\* every selection of the phrases.
Texts ==
    UNION {[1..n -> Words] : n \in 0..MaxWords}
        \cup {JoinPhrases(chosen, 1) : chosen \in SUBSET DOMAIN Phrases}

\* The texts sent on the AI path, where the text only fills the prompt.
PromptTexts == {<<"REST", "API">>}

\* new Date().toISOString(): the reading of the clock, which no operation reads
\* back.
Now == "2025-01-04T10:00:00.000Z"

\* The score triples the external service answers with: one in each priority
\* band, and on each axis one value below 1, above 10 or missing.
ItemScores ==
    {<<Num(10), Num(10), Num(2)>>, <<Num(5), Num(5), Num(4)>>,
     <<Num(5), Num(10), Num(1)>>, <<Num(7), Num(7), Num(1)>>,
     <<Num(0), Num(5), Num(5)>>, <<Num(5), Num(11), Num(5)>>,
     <<Num(5), Num(5), Num(-1)>>,
     <<undefined, Num(5), Num(5)>>, <<Num(5), undefined, Num(5)>>,
     <<Num(5), Num(5), undefined>>}

\* The ids it gives an item: "" stands for an item without id.
ItemIds == {"", "RISK-002"}

ItemCategories == {"Availability", "Security"}

Items ==
    {[id |-> id,
      component |-> "Component Name",
      failureMode |-> "What can fail",
      effect |-> "Impact on system/users",
      cause |-> "Root cause",
      severity |-> s[1], occurrence |-> s[2], detection |-> s[3],
      category |-> c,
      tacticalMitigation |-> <<>>,
      strategicMitigation |-> <<>>] :
        id \in ItemIds, s \in ItemScores, c \in ItemCategories}

Responses ==
    {[kind |-> k] : k \in {"transport_error", "http_error", "no_content", "bad_json"}}
        \cup {[kind |-> "json", failureModes |-> items,
               recommendations |-> <<"Top recommendation 1">>] :
                 items \in UNION {[1..n -> Items] : n \in 0..MaxItems}}

\* --------------------------------------------------------- the analyzer

Init ==
    /\ apiKey \in {"", "sk-ant-api-key"}
    /\ AnalyzerIdle
    /\ call = NoCall

\* The service asked before the key is looked at.
AnalyzeDemo_requestFirst ==
    /\ pc = "idle"
    /\ apiKey = ""
    /\ \E architecture \in Texts, depth \in Depths :
          /\ input' = [architecture |-> architecture, depth |-> depth]
          /\ assembled' = demoFailureModes(architecture)
          /\ outcome' = Succeeded(generateDemoAnalysis(input', Now))
    /\ response' = NoResponse
    /\ requests' = 1
    /\ pc' = "done"
    /\ UNCHANGED <<apiKey, call>>

\* analyzeArchitecture without ANTHROPIC_API_KEY: the demo analysis.
AnalyzeDemo ==
    /\ pc = "idle"
    /\ apiKey = ""
    /\ \E architecture \in Texts, depth \in Depths :
          /\ input' = [architecture |-> architecture, depth |-> depth]
          /\ assembled' = demoFailureModes(architecture)
          /\ outcome' = Succeeded(generateDemoAnalysis(input', Now))
    /\ response' = NoResponse
    /\ requests' = 0
    /\ pc' = "done"
    /\ UNCHANGED <<apiKey, call>>

\* analyzeArchitecture with ANTHROPIC_API_KEY: one request to the external
\* service, then the processing of its answer.
AnalyzeAI ==
    /\ pc = "idle"
    /\ apiKey # ""
    /\ \E architecture \in PromptTexts, depth \in Depths, resp \in Responses :
          /\ input' = [architecture |-> architecture, depth |-> depth]
          /\ response' = resp
          /\ outcome' \in aiOutcomes(input', resp, Now)
    /\ assembled' = <<>>
    /\ requests' = 1
    /\ pc' = "done"
    /\ UNCHANGED <<apiKey, call>>

\* The caller has the result or the error; nothing of the call is kept.
Settle ==
    /\ pc = "done"
    /\ pc' = "idle"
    /\ input' = NoInput
    /\ response' = NoResponse
    /\ assembled' = <<>>
    /\ outcome' = NoOutcome
    /\ requests' = 0
    /\ UNCHANGED <<apiKey, call>>

Next ==
    \/ AnalyzeDemo
    \/ AnalyzeAI
    \/ Settle

Spec == Init /\ [][Next]_vars

\* ------------------------------------------------ claims on the analyzer

\* analyzeArchitecture returned an AnalysisResult.
HasResult == pc = "done" /\ outcome.kind = "result"

\* It returned the demo analysis.
DemoResult == HasResult /\ apiKey = ""

\* It returned the analysis of the external service's answer.
AIResult == HasResult /\ apiKey # ""

Modes == outcome.result.failureModes

\* x == y on JavaScript numbers: NaN and a missing value equal nothing.
JsEq(x, y) == IsNum(x) /\ IsNum(y) /\ x.v = y.v

\* C1: every FailureMode of every AnalysisResult (demo path and AI path) has
\* rpn == severity * occurrence * detection and the priority of the band of
\* that rpn: Critical if rpn >= 200, Medium if 100..199, Low if 50..99,
\* Minimal if rpn < 50.
C1_DerivedRpnAndPriority ==
    HasResult =>
        \A i \in DOMAIN Modes :
            LET fm == Modes[i]
            IN  /\ JsEq(fm.rpn, JsMul(JsMul(fm.severity, fm.occurrence), fm.detection))
                /\ fm.priority = "Critical" <=> JsGe(fm.rpn, Num(200))
                /\ fm.priority = "Medium" <=>
                       (JsGe(fm.rpn, Num(100)) /\ JsLt(fm.rpn, Num(200)))
                /\ fm.priority = "Low" <=>
                       (JsGe(fm.rpn, Num(50)) /\ JsLt(fm.rpn, Num(100)))
                /\ fm.priority = "Minimal" <=> JsLt(fm.rpn, Num(50))

\* C5: in every AnalysisResult the failure modes are sorted by rpn descending:
\* a.rpn >= b.rpn for every adjacent pair (a, b).
C5_SortedByRpn ==
    HasResult =>
        \A i \in 1..(Len(Modes) - 1) : JsGe(Modes[i].rpn, Modes[i + 1].rpn)

\* C6: in every AnalysisResult summary.totalRisks is the length of the returned
\* list and the four band counts add up to it.
C6_SummaryCounts ==
    HasResult =>
        LET summary == outcome.result.summary
        IN  /\ summary.totalRisks = Len(Modes)
            /\ summary.criticalRisks + summary.mediumRisks + summary.lowRisks
                   + summary.minimalRisks = summary.totalRisks

\* The cap the specification gives for a depth.
CapOf(depth) ==
    CASE depth = "quick" -> 8
      [] depth = "standard" -> 15
      [] depth = "deep" -> 25

\* C7: the demo analysis returns at most 8 failure modes at depth quick, 15 at
\* standard and 25 at deep, and the cap cuts the sorted list: the result holds
\* min(cap, n) of the n assembled entries, highest rpn first, and no dropped
\* entry has a higher rpn than a kept one.
C7_CapAfterSort ==
    DemoResult =>
        LET cap == CapOf(input.depth)
            kept == {Modes[i] : i \in DOMAIN Modes}
            all == {assembled[i] : i \in DOMAIN assembled}
        IN  /\ Len(Modes) <= cap
            /\ Len(Modes) = Min(cap, Len(assembled))
            /\ Cardinality(kept) = Len(Modes)
            /\ kept \subseteq all
            /\ \A i \in 1..(Len(Modes) - 1) : Modes[i].rpn.v >= Modes[i + 1].rpn.v
            /\ \A d \in all \ kept : \A k \in kept : d.rpn.v <= k.rpn.v

\* A quick analysis of a text for which more than 8 entries were assembled.
C7_Witness ==
    DemoResult /\ input.depth = "quick" /\ Len(assembled) > 8 /\ Len(Modes) = 8

GeneralRiskNames ==
    {"No centralized logging", "Missing health check endpoints", "No rollback procedure"}

Includes(list, name) == \E i \in DOMAIN list : list[i].failureMode = name

\* C8 as stated: for every text and every depth the demo result contains all
\* three general risks.
C8_GeneralRisksInEveryResult ==
    DemoResult => \A name \in GeneralRiskNames : Includes(Modes, name)

\* C8 amended: the three general risks are in the assembled list for every
\* text, and in the demo result whenever the cap of the depth does not cut the
\* list: at standard and deep always, at quick when at most 8 entries were
\* assembled.
C8_GeneralRisksUnlessCut ==
    DemoResult =>
        /\ \A name \in GeneralRiskNames : Includes(assembled, name)
        /\ (input.depth # "quick" \/ Len(assembled) <= 8)
               => \A name \in GeneralRiskNames : Includes(Modes, name)

\* A result with all three general risks next to component templates.
C8_Witness ==
    /\ DemoResult
    /\ Len(Modes) > 3
    /\ \A name \in GeneralRiskNames : Includes(Modes, name)

\* Whether the words of phrase stand in the text, one after the other.
ContainsPhrase(text, phrase) ==
    \E i \in 1..(Len(text) - Len(phrase) + 1) :
        SubSeq(text, i, i + Len(phrase) - 1) = phrase

\* A demo analysis of a text with "Redis Cache", "MongoDB", "Key Vault" and
\* "REST API".
LibraryResult ==
    /\ DemoResult
    /\ ContainsPhrase(input.architecture, <<"Redis", "Cache">>)
    /\ ContainsPhrase(input.architecture, <<"MongoDB">>)
    /\ ContainsPhrase(input.architecture, <<"Key", "Vault">>)
    /\ ContainsPhrase(input.architecture, <<"REST", "API">>)

\* The failure modes of the templates filed under the labels.
TemplateNames(labels) ==
    UNION {{componentRisks(l)[i].failureMode : i \in DOMAIN componentRisks(l)} :
              l \in labels}

CacheTemplates == TemplateNames({<<"cache">>, <<"redis">>})

DatabaseTemplates == TemplateNames({<<"database">>, <<"db">>})

SecretsTemplates == TemplateNames({<<"key", "vault">>, <<"secrets">>})

ApiTemplates == TemplateNames({<<"api">>, <<"backend">>})

\* The result has an entry of one of the templates, its rpn the product of its
\* own triple.
HasEntryOf(names) ==
    \E i \in DOMAIN Modes :
        /\ Modes[i].failureMode \in names
        /\ Modes[i].rpn.v
               = Modes[i].severity.v * Modes[i].occurrence.v * Modes[i].detection.v

HasKeyword(text, words) ==
    \E i \in DOMAIN text :
        /\ toLowerCase(text[i]) \in words
        /\ ~(i > 1 /\ toLowerCase(text[i]) = "api" /\ toLowerCase(text[i - 1]) = "rest")

C10_UniqueIds ==
    HasResult =>
        \A i, j \in DOMAIN Modes : i # j => Modes[i].id # Modes[j].id

\* ------------------------------------------------- claims on error handling

\* C11: without the credential analyzeArchitecture never fails and issues no
\* outbound request: for every text and every depth it returns the demo
\* analysis, the capped sorted list of the assembled entries with the fixed
\* recommendations.
C11_NoCredentialDemo ==
    /\ apiKey = "" => requests = 0 /\ response = NoResponse
    /\ (pc = "done" /\ apiKey = "")
           => /\ outcome.kind = "result"
              /\ Modes = slice(sortByRpnDescending(assembled), limits(input.depth))
              /\ outcome.result.recommendations = demoRecommendations
              /\ outcome.result.analysisDepth = input.depth

\* A deep demo analysis returned without a request.
C11_Witness ==
    /\ DemoResult
    /\ input.depth = "deep"
    /\ Len(input.architecture) > 0
    /\ Len(Modes) > 3
    /\ requests = 0

\* The external call failed: in transport, by its status, or by content that
\* is not JSON.
ExternalFailure ==
    /\ pc = "done"
    /\ apiKey # ""
    /\ response.kind \in {"transport_error", "http_error", "bad_json"}

\* C12: with the credential, a transport failure, a non-success status or
\* unparseable content makes analyzeArchitecture fail: no AnalysisResult, no
\* demo analysis in its place, and one outbound request at most per
\* invocation.
C12_ExternalFailurePropagates ==
    /\ requests <= 1
    /\ ExternalFailure
           => /\ outcome.kind = "error"
              /\ outcome.error \in {"fetch failed", "API request failed",
                                    "Unexpected token in JSON"}
              /\ assembled = <<>>
              /\ requests = 1

C12_Witness ==
    ExternalFailure /\ response.kind = "bad_json" /\ outcome.kind = "error"

\* A score as the specification wants it: an integer of [1,10].
ValidScore(x) == IsNum(x) /\ x.v \in 1..10

ValidTriple(fm) ==
    ValidScore(fm.severity) /\ ValidScore(fm.occurrence) /\ ValidScore(fm.detection)

\* C13: on the AI path every returned failure mode has severity, occurrence
\* and detection in [1,10]; a response with an item whose score is out of
\* range or missing makes the whole analysis fail with the validation error.
C13_ScoresValidated ==
    /\ AIResult => \A i \in DOMAIN Modes : ValidTriple(Modes[i])
    /\ (pc = "done" /\ apiKey # "" /\ response.kind = "json"
           /\ \E i \in DOMAIN response.failureModes :
                  ~ValidTriple(response.failureModes[i]))
           => /\ outcome.kind = "error"
              /\ outcome.error \in {"Severity must be between 1 and 10",
                                    "Occurrence must be between 1 and 10",
                                    "Detection must be between 1 and 10"}

\* ------------------------------------------- claims on the component table

\* The words the patterns recognise on their own, and in pairs.
SingleKeywords ==
    {"webapp", "frontend", "ui", "api", "backend", "restapi", "graphql", "database",
     "db", "postgres", "mysql", "mongodb", "documentdb", "cache", "redis",
     "memcached", "queue", "rabbitmq", "kafka", "sqs", "keyvault", "secrets", "hsm",
     "loadbalancer", "lb", "nginx", "haproxy", "storage", "blob", "s3"}

PairKeywords ==
    {<<"web", "app">>, <<"rest", "api">>, <<"key", "vault">>, <<"load", "balancer">>}

\* The text has no recognised keyword.
NoKeyword(text) ==
    /\ \A i \in DOMAIN text : toLowerCase(text[i]) \notin SingleKeywords
    /\ \A i \in 1..(Len(text) - 1) :
           <<toLowerCase(text[i]), toLowerCase(text[i + 1])>> \notin PairKeywords

\* The failure modes of the result filed under a component.
ModesOf(component) == {i \in DOMAIN Modes : Modes[i].component = component}

\* C19: for a text without recognised keyword the components are the defaults
\* "web app", "api" and "database": at every depth the demo result is the
\* templates of these three (1 + 2 + 2) and the three general risks, 8 failure
\* modes.
C19_DefaultComponents ==
    (DemoResult /\ NoKeyword(input.architecture))
        => /\ Len(Modes) = 8
           /\ {Modes[i].failureMode : i \in DOMAIN Modes}
                  = TemplateNames({<<"web", "app">>, <<"api">>, <<"database">>})
                        \cup GeneralRiskNames
           /\ Cardinality(ModesOf("WEB-APP")) = 1
           /\ Cardinality(ModesOf("API")) = 2
           /\ Cardinality(ModesOf("DATABASE")) = 2
           /\ Cardinality(ModesOf("Infrastructure")) = 1
           /\ Cardinality(ModesOf("Monitoring")) = 1
           /\ Cardinality(ModesOf("Deployment")) = 1

\* A quick analysis of a text of two words that are no keywords.
C19_Witness ==
    /\ DemoResult
    /\ input.depth = "quick"
    /\ input.architecture = <<"web", "with">>
    /\ Len(Modes) = 8

\* The labels detected in the text of the analysis.
Detected == MatchAll(lowerCased(input.architecture), 1)

\* Something was detected, and the table has no entry for any of it.
UnmappedOnlyIn(detected) ==
    /\ detected # <<>>
    /\ \A i \in DOMAIN detected : componentRisks(detected[i]) = <<>>

UnmappedOnly == UnmappedOnlyIn(Detected)

\* C20: a detected label without entry in the table contributes no failure
\* mode and does not bring the defaults in: a text whose only recognised
\* keywords are such labels yields the three general risks and nothing else.
C20_UnmappedLabelsContributeNothing ==
    DemoResult
        => \A detected \in {Detected} :
              /\ \A i \in DOMAIN detected :
                     componentRisks(detected[i]) = <<>>
                         => ModesOf(ComponentDisplay(detected[i])) = {}
              /\ UnmappedOnlyIn(detected)
                     => /\ Len(Modes) = 3
                        /\ {Modes[i].failureMode : i \in DOMAIN Modes} = GeneralRiskNames
                        /\ assembled = Numbered(GeneralEntries, 1)

\* "kafka" and "REST API" detected, nothing but the general risks returned.
C20_Witness ==
    /\ DemoResult
    /\ UnmappedOnly
    /\ input.architecture \in {<<"kafka", "s3">>, <<"REST", "API">>, <<"MongoDB", "queue">>}
    /\ Len(Modes) = 3

\* ------------------------------------- claims on numbering, order and caps

\* RISK-### for the n-th entry.
IdNumber(n) ==
    "RISK-" \o (IF n < 10 THEN "00" ELSE IF n < 100 THEN "0" ELSE "") \o ToString(n)

\* The place an entry of the result had in the assembled list.
PlaceOf(fm) == CHOOSE i \in DOMAIN assembled : assembled[i].id = fm.id

\* The place of a display label among the unique components.
RankOf(components, display) ==
    CHOOSE r \in DOMAIN components : ComponentDisplay(components[r]) = display

\* The place of a failure mode among the templates of a component.
TemplateRank(component, name) ==
    CHOOSE t \in DOMAIN componentRisks(component) :
        componentRisks(component)[t].failureMode = name

\* C22: the demo ids are given before the sort, RISK-001, RISK-002, ... without
\* gap in the order of appending: the templates of the first unique component,
\* then of the next, then the three general risks, which carry the numbers
\* N-2, N-1 and N of the N assembled entries; the sort and the cut renumber
\* nothing.
C22_IdsInAppendOrder ==
    DemoResult
        => \A components \in {Unique(extractComponents(input.architecture))} :
              LET n == Len(assembled)
              IN  /\ \A i \in 1..n : assembled[i].id = IdNumber(i)
                  /\ n >= 3
                  /\ assembled[n - 2].failureMode = "No centralized logging"
                  /\ assembled[n - 1].failureMode = "Missing health check endpoints"
                  /\ assembled[n].failureMode = "No rollback procedure"
                  /\ \A i, j \in 1..(n - 3) :
                        i < j =>
                            LET a == RankOf(components, assembled[i].component)
                                b == RankOf(components, assembled[j].component)
                            IN  /\ a <= b
                                /\ a = b =>
                                      TemplateRank(components[a], assembled[i].failureMode)
                                          < TemplateRank(components[a], assembled[j].failureMode)
                  /\ \A k \in DOMAIN Modes : Modes[k] = assembled[PlaceOf(Modes[k])]

\* A sorted result whose first entry was assembled last but two.
C22_Witness ==
    /\ DemoResult
    /\ Len(assembled) = 10
    /\ Modes[1].id = "RISK-008"
    /\ Modes[1].failureMode = "No centralized logging"

\* C23: the sort is stable: two failure modes of a demo result with the same
\* rpn stand in the order they were assembled in, and of two assembled entries
\* with the same rpn the cut keeps the earlier one.
C23_StableSort ==
    DemoResult
        => /\ \A i, j \in DOMAIN Modes :
                 (i < j /\ Modes[i].rpn = Modes[j].rpn)
                     => PlaceOf(Modes[i]) < PlaceOf(Modes[j])
           /\ \A d \in DOMAIN assembled, k \in DOMAIN Modes :
                 (assembled[d].rpn = Modes[k].rpn
                    /\ \A m \in DOMAIN Modes : Modes[m].id # assembled[d].id)
                     => PlaceOf(Modes[k]) < d

\* The web-app template kept at place 8 of a quick result, "No rollback
\* procedure" of the same rpn cut.
C23_Witness ==
    /\ DemoResult
    /\ input.depth = "quick"
    /\ Len(assembled) = 9
    /\ Modes[8].component = "WEB-APP"
    /\ Modes[8].rpn = Num(120)
    /\ Includes(assembled, "No rollback procedure")
    /\ ~Includes(Modes, "No rollback procedure")

\* The first place of a category in the list.
FirstPlace(list, category) ==
    CHOOSE i \in DOMAIN list :
        /\ list[i].category = category
        /\ \A j \in 1..(i - 1) : list[j].category # category

\* C24: summary.topRiskAreas is the distinct categories of the first min(5, n)
\* failure modes of the result in order of first appearance: no duplicate, 1
\* to 5 elements for a non-empty list, no category that stands at place 6 or
\* later only.
C24_TopRiskAreas ==
    HasResult
        => LET areas == outcome.result.summary.topRiskAreas
               top == SubSeq(Modes, 1, Min(5, Len(Modes)))
           IN  /\ {areas[a] : a \in DOMAIN areas} = {top[i].category : i \in DOMAIN top}
               /\ \A a, b \in DOMAIN areas : a # b => areas[a] # areas[b]
               /\ \A a, b \in DOMAIN areas :
                     a < b => FirstPlace(top, areas[a]) < FirstPlace(top, areas[b])
               /\ Len(Modes) > 0 => Len(areas) \in 1..5
               /\ Len(Modes) = 0 => areas = <<>>

\* A result with a category at place 6 or later that is none of the areas.
C24_Witness ==
    /\ DemoResult
    /\ Len(Modes) >= 6
    /\ \E i \in 6..Len(Modes) :
          \A a \in DOMAIN outcome.result.summary.topRiskAreas :
              outcome.result.summary.topRiskAreas[a] # Modes[i].category
    /\ Len(outcome.result.summary.topRiskAreas) > 1

\* C25: the detected labels are collapsed to a set, whatever their letter
\* case: a keyword mentioned several times brings its templates once, and no
\* demo result has the same component and failure mode twice.
C25_LabelsCollapsed ==
    DemoResult
        => /\ \A i, j \in DOMAIN assembled :
                 i # j => <<assembled[i].component, assembled[i].failureMode>>
                              # <<assembled[j].component, assembled[j].failureMode>>
           /\ \A i, j \in DOMAIN Modes :
                 i # j => <<Modes[i].component, Modes[i].failureMode>>
                              # <<Modes[j].component, Modes[j].failureMode>>
           /\ \A detected \in {Detected} :
                 \A d \in DOMAIN detected :
                     Cardinality({i \in DOMAIN assembled :
                                     assembled[i].component = ComponentDisplay(detected[d])})
                         = Len(componentRisks(detected[d]))

\* "API api": the label api twice, its two templates once.
C25_Witness ==
    /\ DemoResult
    /\ input.architecture = <<"API", "api">>
    /\ Cardinality(ModesOf("API")) = 2
    /\ Len(Modes) = 5

\* C28: for every text the list assembled before the cut has 3 to 15 entries:
\* every demo result is non-empty, the caps of standard and deep drop nothing,
\* and only depth quick cuts.
C28_AssembledBetween3And15 ==
    DemoResult
        => /\ Len(assembled) \in 3..15
           /\ Len(Modes) >= 3
           /\ input.depth \in {"standard", "deep"}
                  => /\ Len(Modes) = Len(assembled)
                     /\ \A i \in DOMAIN assembled : Includes(Modes, assembled[i].failureMode)
           /\ Len(Modes) < Len(assembled) => input.depth = "quick"

\* All ten labels of the table in one text, analysed at depth standard.
C28_Witness ==
    /\ DemoResult
    /\ input.depth = "standard"
    /\ Len(assembled) = 15
    /\ Len(Modes) = 15

\* The urgency of a priority label.
Urgency(priority) ==
    CASE priority = "Critical" -> 3
      [] priority = "Medium" -> 2
      [] priority = "Low" -> 1
      [] priority = "Minimal" -> 0

\* C29: along the failure modes of every AnalysisResult the priority never
\* rises: no Medium, Low or Minimal before a Critical, no Low or Minimal
\* before a Medium, no Minimal before a Low.
C29_PriorityNeverRises ==
    HasResult
        => \A i, j \in DOMAIN Modes :
              i < j => Urgency(Modes[i].priority) >= Urgency(Modes[j].priority)

\* The place of the failure mode of that name in the result.
PlaceInResult(name) == CHOOSE i \in DOMAIN Modes : Modes[i].failureMode = name

\* C30: whatever is detected and whatever the depth, "No centralized logging"
\* (rpn 210) and "Missing health check endpoints" (rpn 168) are in the demo
\* result: at most 4 entries stand before the first and at most 7 before the
\* second, and summary.criticalRisks is at least 1.
C30_LoggingAndHealthSurvive ==
    DemoResult
        => /\ Includes(Modes, "No centralized logging")
           /\ Includes(Modes, "Missing health check endpoints")
           /\ PlaceInResult("No centralized logging") <= 5
           /\ PlaceInResult("Missing health check endpoints") <= 8
           /\ Modes[PlaceInResult("No centralized logging")].rpn = Num(210)
           /\ Modes[PlaceInResult("Missing health check endpoints")].rpn = Num(168)
           /\ outcome.result.summary.criticalRisks >= 1

\* A quick result with "Missing health check endpoints" at the last place.
C30_Witness ==
    /\ DemoResult
    /\ input.depth = "quick"
    /\ Len(assembled) > 8
    /\ PlaceInResult("No centralized logging") = 5
    /\ PlaceInResult("Missing health check endpoints") = 8

\* -------------------------------------------------- fmea.ts: the worksheets

\* A text of a worksheet is its sequence of characters, where a run of
\* characters other than comma, double quote and line feed stands as one
\* element.

\* field.includes(c)
includes(field, c) == \E i \in DOMAIN field : field[i] = c

RECURSIVE replaceQuotes(_)
\* field.replace(/"/g, '""')
replaceQuotes(field) ==
    IF field = <<>> THEN <<>>
    ELSE (IF Head(field) = "\"" THEN <<"\"", "\"">> ELSE <<Head(field)>>)
             \o replaceQuotes(Tail(field))

\* The quotes of a wrapped field left single.
escapeCSV_quotesKept(field) ==
    IF includes(field, ",") \/ includes(field, "\"") \/ includes(field, "\n")
    THEN <<"\"">> \o field \o <<"\"">>
    ELSE field

escapeCSV(field) ==
    IF includes(field, ",") \/ includes(field, "\"") \/ includes(field, "\n")
    THEN <<"\"">> \o replaceQuotes(field) \o <<"\"">>
    ELSE field

RECURSIVE join(_, _)
\* list.join(separator)
join(list, separator) ==
    IF list = <<>> THEN <<>>
    ELSE IF Len(list) = 1 THEN list[1]
    ELSE list[1] \o separator \o join(Tail(list), separator)

\* x.toString() on a score: a TypeError on a missing one.
toString(x) ==
    CASE x.t = "number" -> Return(<<ToString(x.v)>>)
      [] x.t = "NaN" -> Return(<<"NaN">>)
      [] OTHER -> Throw("TypeError: Cannot read properties of undefined")

csvHeaders(includeMitigations) ==
    << <<"ID">>, <<"Component">>, <<"Failure Mode">>, <<"Effect">>, <<"Cause">>,
       <<"Severity">>, <<"Occurrence">>, <<"Detection">>, <<"RPN">>, <<"Priority">>,
       <<"Category">> >>
        \o (IF includeMitigations
            THEN << <<"Tactical Mitigations">>, <<"Strategic Mitigations">> >>
            ELSE <<>>)

\* The text fields written as they are.
csvRow_raw(fm, includeMitigations) ==
    LET numbers == <<toString(fm.severity), toString(fm.occurrence),
                     toString(fm.detection), toString(fm.rpn)>>
    IN  IF \E i \in 1..4 : ~numbers[i].ok
        THEN Throw("TypeError: Cannot read properties of undefined")
        ELSE Return(<<fm.id, fm.component, fm.failureMode, fm.effect, fm.cause,
                      numbers[1].value, numbers[2].value, numbers[3].value,
                      numbers[4].value, fm.priority, fm.category>>
                        \o (IF includeMitigations
                            THEN <<join(fm.tacticalMitigation, <<"; ">>),
                                   join(fm.strategicMitigation, <<"; ">>)>>
                            ELSE <<>>))

\* The fields of the row of one failure mode, or the TypeError of toString.
csvRow(fm, includeMitigations) ==
    LET numbers == <<toString(fm.severity), toString(fm.occurrence),
                     toString(fm.detection), toString(fm.rpn)>>
    IN  IF \E i \in 1..4 : ~numbers[i].ok
        THEN Throw("TypeError: Cannot read properties of undefined")
        ELSE Return(<<escapeCSV(fm.id), escapeCSV(fm.component),
                      escapeCSV(fm.failureMode), escapeCSV(fm.effect),
                      escapeCSV(fm.cause),
                      numbers[1].value, numbers[2].value, numbers[3].value,
                      numbers[4].value,
                      escapeCSV(fm.priority), escapeCSV(fm.category)>>
                        \o (IF includeMitigations
                            THEN <<escapeCSV(join(fm.tacticalMitigation, <<"; ">>)),
                                   escapeCSV(join(fm.strategicMitigation, <<"; ">>))>>
                            ELSE <<>>))

RECURSIVE csvRows(_, _)
\* The lines of the failure modes, each joined with commas.
csvRows(failureModes, includeMitigations) ==
    IF failureModes = <<>> THEN <<>>
    ELSE <<join(csvRow(Head(failureModes), includeMitigations).value, <<",">>)>>
             \o csvRows(Tail(failureModes), includeMitigations)

formatAsCSV(analysis, includeMitigations) ==
    IF \E i \in DOMAIN analysis.failureModes :
           ~csvRow(analysis.failureModes[i], includeMitigations).ok
    THEN Throw("TypeError: Cannot read properties of undefined")
    ELSE Return(join(<<join(csvHeaders(includeMitigations), <<",">>)>>
                         \o csvRows(analysis.failureModes, includeMitigations),
                     <<"\n">>))

null == [t |-> "null", v |-> 0]

\* The keys of a FailureMode in the order analyzeArchitecture and
\* generateDemoAnalysis create them.
FailureModeKeys ==
    <<"id", "component", "failureMode", "effect", "cause", "severity", "occurrence",
      "detection", "rpn", "priority", "category", "tacticalMitigation",
      "strategicMitigation">>

\* The keys of the object formatAsJSON builds without mitigations.
SimplifiedKeys ==
    <<"id", "component", "failureMode", "effect", "cause", "severity", "occurrence",
      "detection", "rpn", "priority", "category">>

NumberKeys == {"severity", "occurrence", "detection", "rpn"}

\* fm => ({id: fm.id, ..., category: fm.category})
simplified(fm) == [k \in {SimplifiedKeys[i] : i \in DOMAIN SimplifiedKeys} |-> fm[k]]

RECURSIVE stringifyObject(_, _)
\* JSON.stringify of an object with the keys in their order: a key whose value
\* is undefined is left out, a NaN is written as null.
stringifyObject(object, keys) ==
    IF keys = <<>> THEN <<>>
    ELSE LET key == Head(keys)
             value == object[key]
         IN  (IF key \in NumberKeys /\ value.t = "undefined" THEN <<>>
              ELSE IF key \in NumberKeys /\ value.t = "NaN"
              THEN <<[key |-> key, value |-> null]>>
              ELSE <<[key |-> key, value |-> value]>>)
                 \o stringifyObject(object, Tail(keys))

RECURSIVE stringifyAll(_, _)
stringifyAll(failureModes, keys) ==
    IF failureModes = <<>> THEN <<>>
    ELSE <<stringifyObject(Head(failureModes), keys)>>
             \o stringifyAll(Tail(failureModes), keys)

\* JSON.stringify(analysis, null, 2): the document, each failure mode the
\* sequence of its members.
stringify(analysis, keys) ==
    [summary |-> analysis.summary,
     failureModes |-> stringifyAll(analysis.failureModes, keys),
     recommendations |-> analysis.recommendations,
     analysisDepth |-> analysis.analysisDepth,
     timestamp |-> analysis.timestamp]

RECURSIVE simplifiedAll(_)
simplifiedAll(failureModes) ==
    IF failureModes = <<>> THEN <<>>
    ELSE <<simplified(Head(failureModes))>> \o simplifiedAll(Tail(failureModes))

formatAsJSON(analysis, includeMitigations) ==
    IF ~includeMitigations
    THEN stringify([analysis EXCEPT !.failureModes = simplifiedAll(@)], SimplifiedKeys)
    ELSE stringify(analysis, FailureModeKeys)

\* ------------------------------------------------- fmea.ts: the heatmap

RECURSIVE severityBand(_, _)
\* The ids pushed on high, medium or low, in list order: severity >= 7 is
\* high, else >= 4 medium, else low.
severityBand(failureModes, band) ==
    IF failureModes = <<>> THEN <<>>
    ELSE LET fm == Head(failureModes)
             bandOf == IF JsGe(fm.severity, Num(7)) THEN "high"
                       ELSE IF JsGe(fm.severity, Num(4)) THEN "medium"
                       ELSE "low"
         IN  (IF bandOf = band THEN <<fm.id>> ELSE <<>>)
                 \o severityBand(Tail(failureModes), band)

\* failureModes.find(f => f.id === id): the first failure mode with the id.
find(failureModes, id) ==
    failureModes[CHOOSE i \in DOMAIN failureModes :
                    /\ failureModes[i].id = id
                    /\ \A j \in 1..(i - 1) : failureModes[j].id # id]

RECURSIVE joinIds(_)
\* ids.join(", ")
joinIds(ids) ==
    IF ids = <<>> THEN ""
    ELSE IF Len(ids) = 1 THEN ids[1]
    ELSE ids[1] \o ", " \o joinIds(Tail(ids))

RECURSIVE spaces(_)
spaces(n) == IF n <= 0 THEN "" ELSE " " \o spaces(n - 1)

\* text.padEnd(10): filled up with spaces to 10 characters, never cut.
padEnd10(text) == text \o spaces(10 - Len(text))

\* ids.filter(...): the ids whose failure mode has its occurrence in
\* minOcc..maxOcc.
filterByOccurrence(failureModes, ids, maxOcc, minOcc) ==
    SelectSeq(ids, LAMBDA id : /\ JsGe(find(failureModes, id).occurrence, Num(minOcc))
                               /\ JsGe(Num(maxOcc), find(failureModes, id).occurrence))

\* A cell that shows the last three of its ids.
formatCell_lastThree(failureModes, ids, maxOcc, minOcc) ==
    LET filtered == filterByOccurrence(failureModes, ids, maxOcc, minOcc)
    IN  joinIds(SubSeq(filtered, Len(filtered) - Min(3, Len(filtered)) + 1, Len(filtered)))

\* formatCell(ids, maxOcc, minOcc): filtered.slice(0, 3).join(", ")
formatCell(failureModes, ids, maxOcc, minOcc) ==
    LET filtered == filterByOccurrence(failureModes, ids, maxOcc, minOcc)
    IN  joinIds(SubSeq(filtered, 1, Min(3, Len(filtered))))

\* The line of a severity band: the label and its three cells.
heatmapRow(label, failureModes, ids) ==
    <<label, padEnd10(formatCell(failureModes, ids, 3, 1)), " | ",
      padEnd10(formatCell(failureModes, ids, 6, 4)), " | ",
      padEnd10(formatCell(failureModes, ids, 10, 7)), " |">>

\* The lines of the heatmap, which generateHeatmap joins with line feeds;
\* each line the pieces it is put together from. The backquotes of the code
\* fence in the first and the last line are written as quotes.
generateHeatmap(failureModes) ==
    << <<"'''">>,
       <<"                        PROBABILITY">>,
       <<"            +------------+------------+------------+">>,
       <<"            |  Unlikely  |   Likely   |  Certain   |">>,
       <<"            |   (1-3)    |   (4-6)    |   (7-10)   |">>,
       <<" +----------+------------+------------+------------+">>,
       <<" |          |            |            |            |">>,
       heatmapRow(" |   HIGH   | ", failureModes, severityBand(failureModes, "high")),
       <<" |  (7-10)  |            |            |            |">>,
       <<" +----------+------------+------------+------------+">>,
       <<"S|          |            |            |            |">>,
       heatmapRow("E|  MEDIUM  | ", failureModes, severityBand(failureModes, "medium")),
       <<"V|  (4-6)   |            |            |            |">>,
       <<"E+----------+------------+------------+------------+">>,
       <<"R|          |            |            |            |">>,
       heatmapRow("I|   LOW    | ", failureModes, severityBand(failureModes, "low")),
       <<"T|  (1-3)   |            |            |            |">>,
       <<"Y+----------+------------+------------+------------+">>,
       <<"'''">> >>

\* --------------------------------------------- calls of fmea.ts (SpecFMEA)

\* Longest text of a varied field, in characters.
MaxFieldLen == 2

\* Most failure modes of a rendered analysis.
MaxRows == 2

FieldChars == {"a", ",", "\"", "\n"}

FieldTexts == UNION {[1..n -> FieldChars] : n \in 0..MaxFieldLen}

\* The failure mode the others are varied from.
PlainMode ==
    [id |-> <<"RISK-001">>,
     component |-> <<"API">>,
     failureMode |-> <<"Rate limiting not configured">>,
     effect |-> <<"DDoS vulnerability", ",", " resource exhaustion">>,
     cause |-> <<"Missing API gateway or rate limiter">>,
     severity |-> Num(8), occurrence |-> Num(5), detection |-> Num(6),
     rpn |-> Num(240),
     priority |-> <<"Critical">>,
     category |-> <<"Security">>,
     tacticalMitigation |-> << <<"Add basic rate limiting">>, <<"Set up alerts">> >>,
     strategicMitigation |-> <<>>]

\* A failure mode enriched from an item without severity.
UnscoredMode ==
    [PlainMode EXCEPT !.id = <<"RISK-002">>, !.severity = undefined, !.rpn = NaN,
                      !.priority = <<"Minimal">>]

\* The failure modes with one text varied.
VariedModes ==
    {[base EXCEPT ![k] = text] :
        base \in {PlainMode, UnscoredMode},
        k \in {"id", "component", "cause", "category"},
        text \in FieldTexts}
        \cup {[PlainMode EXCEPT !.strategicMitigation = <<text, <<"a">> >>] :
                text \in FieldTexts}

\* The analyses rendered: no failure mode, or a varied one followed by plain
\* and unscored ones.
Analyses ==
    {[summary |-> summaryOf(list),
      failureModes |-> list,
      recommendations |-> <<"Top recommendation 1">>,
      analysisDepth |-> "standard",
      timestamp |-> Now] :
        list \in {<<>>} \cup
                 {<<fm>> \o rest :
                     fm \in VariedModes,
                     rest \in UNION {[1..n -> {PlainMode, UnscoredMode}] :
                                        n \in 0..(MaxRows - 1)}}}

\* Most failure modes of a list drawn as a heatmap.
MaxHeatModes == 4

\* Their severity and occurrence: a pair for each of the nine cells.
HeatScores ==
    {<<7, 3>>, <<10, 4>>, <<7, 7>>, <<4, 1>>, <<6, 6>>, <<5, 10>>, <<3, 3>>, <<1, 4>>,
     <<3, 7>>}

\* The lists drawn: the failure modes numbered in list order, the id a text
\* of characters.
HeatLists ==
    {[i \in 1..Len(scores) |->
         [PlainMode EXCEPT !.id = "RISK-" \o padStart3(i),
                           !.severity = Num(scores[i][1]),
                           !.occurrence = Num(scores[i][2]),
                           !.rpn = Num(scores[i][1] * scores[i][2] * 6)]] :
        scores \in UNION {[1..m -> HeatScores] : m \in 0..MaxHeatModes}}

InitFMEA ==
    /\ apiKey = "sk-ant-api-key"
    /\ AnalyzerIdle
    /\ \/ \E analysis \in Analyses, includeMitigations \in BOOLEAN,
              fn \in {"formatAsCSV", "formatAsJSON"} :
             call = [fn |-> fn, args |-> <<analysis, includeMitigations>>,
                     done |-> FALSE, ret |-> Return(undefined)]
       \/ \E field \in FieldTexts :
             call = [fn |-> "escapeCSV", args |-> <<field>>, done |-> FALSE,
                     ret |-> Return(undefined)]
       \/ \E failureModes \in HeatLists :
             call = [fn |-> "generateHeatmap", args |-> <<failureModes>>, done |-> FALSE,
                     ret |-> Return(undefined)]

CallFormatAsCSV ==
    /\ call.fn = "formatAsCSV"
    /\ ~call.done
    /\ call' = [call EXCEPT !.done = TRUE,
                            !.ret = formatAsCSV(call.args[1], call.args[2])]
    /\ UNCHANGED <<apiKey, pc, input, response, assembled, outcome, requests>>

CallFormatAsJSON ==
    /\ call.fn = "formatAsJSON"
    /\ ~call.done
    /\ call' = [call EXCEPT !.done = TRUE,
                            !.ret = Return(formatAsJSON(call.args[1], call.args[2]))]
    /\ UNCHANGED <<apiKey, pc, input, response, assembled, outcome, requests>>

CallEscapeCSV ==
    /\ call.fn = "escapeCSV"
    /\ ~call.done
    /\ call' = [call EXCEPT !.done = TRUE, !.ret = Return(escapeCSV(call.args[1]))]
    /\ UNCHANGED <<apiKey, pc, input, response, assembled, outcome, requests>>

CallGenerateHeatmap ==
    /\ call.fn = "generateHeatmap"
    /\ ~call.done
    /\ call' = [call EXCEPT !.done = TRUE, !.ret = Return(generateHeatmap(call.args[1]))]
    /\ UNCHANGED <<apiKey, pc, input, response, assembled, outcome, requests>>

NextFMEA ==
    \/ CallFormatAsCSV
    \/ CallFormatAsJSON
    \/ CallEscapeCSV
    \/ CallGenerateHeatmap

SpecFMEA == InitFMEA /\ [][NextFMEA]_vars

\* ------------------------------------------------ claims on the worksheets

RECURSIVE parseFrom(_, _, _, _, _, _)
\* The records of a CSV text read from character i on: commas part fields
\* and line feeds part records outside quotes, a field that starts with a
\* quote runs to its closing quote, and two quotes inside it are one.
parseFrom(text, i, mode, field, row, rows) ==
    IF i > Len(text) THEN Append(rows, Append(row, field))
    ELSE LET c == text[i]
         IN  CASE mode = "quoted" /\ c = "\"" ->
                      parseFrom(text, i + 1, "closing", field, row, rows)
               [] mode = "quoted" /\ c # "\"" ->
                      parseFrom(text, i + 1, "quoted", Append(field, c), row, rows)
               [] mode = "closing" /\ c = "\"" ->
                      parseFrom(text, i + 1, "quoted", Append(field, "\""), row, rows)
               [] mode # "quoted" /\ c = "," ->
                      parseFrom(text, i + 1, "start", <<>>, Append(row, field), rows)
               [] mode # "quoted" /\ c = "\n" ->
                      parseFrom(text, i + 1, "start", <<>>, <<>>,
                                Append(rows, Append(row, field)))
               [] mode = "start" /\ c = "\"" ->
                      parseFrom(text, i + 1, "quoted", field, row, rows)
               [] OTHER ->
                      parseFrom(text, i + 1, "unquoted", Append(field, c), row, rows)

parseCSV(text) == IF text = <<>> THEN <<>> ELSE parseFrom(text, 1, "start", <<>>, <<>>, <<>>)

\* A finished call of formatAsCSV that returned a worksheet.
CsvReturned == call.fn = "formatAsCSV" /\ call.done /\ call.ret.ok

\* The text fields of a failure mode in the order of the columns.
TextColumns(fm, includeMitigations) ==
    <<fm.id, fm.component, fm.failureMode, fm.effect, fm.cause, fm.priority,
      fm.category>>
        \o (IF includeMitigations
            THEN <<join(fm.tacticalMitigation, <<"; ">>),
                   join(fm.strategicMitigation, <<"; ">>)>>
            ELSE <<>>)

\* The columns of the text fields.
TextColumnIndex == <<1, 2, 3, 4, 5, 10, 11, 12, 13>>

\* C16: the CSV worksheet has a header of exactly 11 columns, 13 with the
\* mitigations, and read back by the rules of CSV it has one record for each
\* failure mode, each with as many fields as the header and with the text
\* fields as they were, whatever commas, double quotes and line feeds they
\* hold; a worksheet is returned whenever every score is there.
C16_CsvRoundTrip ==
    /\ (call.fn = "formatAsCSV" /\ call.done
          /\ \A i \in DOMAIN call.args[1].failureModes :
                call.args[1].failureModes[i].severity # undefined)
           => call.ret.ok
    /\ CsvReturned
           => LET failureModes == call.args[1].failureModes
                  columns == IF call.args[2] THEN 13 ELSE 11
                  records == parseCSV(call.ret.value)
              IN  /\ records[1] = csvHeaders(call.args[2])
                  /\ Len(records[1]) = columns
                  /\ Len(records) - 1 = Len(failureModes)
                  /\ \A r \in DOMAIN records : Len(records[r]) = columns
                  /\ \A i \in DOMAIN failureModes :
                        LET texts == TextColumns(failureModes[i], call.args[2])
                        IN  \A k \in DOMAIN texts :
                               records[i + 1][TextColumnIndex[k]] = texts[k]

\* A worksheet of two failure modes, the first with a quote and a line feed
\* in its component.
C16_Witness ==
    /\ CsvReturned
    /\ Len(call.args[1].failureModes) = 2
    /\ call.args[1].failureModes[1].component = <<"\"", "\n">>
    /\ Len(parseCSV(call.ret.value)) = 3

RECURSIVE undouble(_)
\* Two quotes read as one.
undouble(text) ==
    IF Len(text) < 2 THEN text
    ELSE IF text[1] = "\"" /\ text[2] = "\"" THEN <<"\"">> \o undouble(SubSeq(text, 3, Len(text)))
    ELSE <<text[1]>> \o undouble(Tail(text))

\* The field an emitted text stands for: what is between the outer quotes
\* with doubled quotes read as one, or the text itself without them.
unescapeCSV(text) ==
    IF Len(text) >= 2 /\ text[1] = "\"" /\ text[Len(text)] = "\""
    THEN undouble(SubSeq(text, 2, Len(text) - 1))
    ELSE text

EscapeReturned == call.fn = "escapeCSV" /\ call.done

\* C17: escapeCSV emits a field with a comma, a double quote or a line feed
\* wrapped in double quotes with each quote inside doubled, any other field
\* unchanged, and unescaping the emitted text gives the field back.
C17_EscapeRoundTrip ==
    EscapeReturned
        => LET field == call.args[1]
               emitted == call.ret.value
               special == \E i \in DOMAIN field : field[i] \in {",", "\"", "\n"}
               quotes == Cardinality({i \in DOMAIN field : field[i] = "\""})
           IN  /\ special => /\ Len(emitted) = Len(field) + quotes + 2
                             /\ emitted[1] = "\""
                             /\ emitted[Len(emitted)] = "\""
               /\ ~special => emitted = field
               /\ unescapeCSV(emitted) = field
               /\ parseCSV(<<"a", ",">> \o emitted \o <<",", "a">>)
                      = << <<<<"a">>, field, <<"a">>>> >>

C17_Witness ==
    /\ EscapeReturned
    /\ call.args[1] = <<"\"", ",">>
    /\ call.ret.value = <<"\"", "\"", "\"", ",", "\"">>

JsonReturned == call.fn = "formatAsJSON" /\ call.done

\* C18: the JSON worksheet without mitigations has for every failure mode
\* exactly the keys id, component, failureMode, effect, cause, severity,
\* occurrence, detection, rpn, priority, category, in the order and with the
\* values of the analysis, and its summary, recommendations, analysisDepth
\* and timestamp are those of the full rendering.
C18_ReducedJson ==
    (JsonReturned /\ ~call.args[2])
        => LET analysis == call.args[1]
               document == call.ret.value
               full == formatAsJSON(analysis, TRUE)
           IN  /\ Len(document.failureModes) = Len(analysis.failureModes)
               /\ \A i \in DOMAIN document.failureModes :
                     LET members == document.failureModes[i]
                     IN  /\ Len(members) = Len(SimplifiedKeys)
                         /\ \A k \in DOMAIN members :
                               /\ members[k].key = SimplifiedKeys[k]
                               /\ members[k].value
                                      = analysis.failureModes[i][SimplifiedKeys[k]]
               /\ document.summary = full.summary
               /\ document.recommendations = full.recommendations
               /\ document.analysisDepth = full.analysisDepth
               /\ document.timestamp = full.timestamp

\* ---------------------------------------------- claims on the heatmap

HeatmapReturned == call.fn = "generateHeatmap" /\ call.done

\* The lines of the severity bands, and the severities of each.
HeatRows == {8, 12, 16}

SeverityRange(row) == IF row = 8 THEN 7..10 ELSE IF row = 12 THEN 4..6 ELSE 1..3

OccurrenceRange(col) == IF col = 1 THEN 1..3 ELSE IF col = 2 THEN 4..6 ELSE 7..10

\* The places in the list of the failure modes that belong in a cell.
Qualifying(list, row, col) ==
    {i \in DOMAIN list : /\ list[i].severity.v \in SeverityRange(row)
                         /\ list[i].occurrence.v \in OccurrenceRange(col)}

RECURSIVE ListedIds(_, _, _)
\* The ids at the first count places of a set of places, in list order,
\* with ", " between them.
ListedIds(list, places, count) ==
    IF places = {} \/ count = 0 THEN ""
    ELSE LET first == CHOOSE i \in places : \A j \in places : i <= j
             rest == ListedIds(list, places \ {first}, count - 1)
         IN  IF rest = "" THEN list[first].id ELSE list[first].id \o ", " \o rest

\* The text of a cell in the returned heatmap, its padding included.
CellText(row, col) == call.ret.value[row][2 * col]

\* C26: for a list of failure modes with distinct ids and integer severity
\* and occurrence in 1..10, each failure mode qualifies for exactly one of the
\* nine cells, and each cell shows the ids of the first three qualifying
\* failure modes in list order, and nothing else but padding.
C26_HeatmapBuckets ==
    HeatmapReturned =>
        \A list \in {call.args[1]} :
            (\A i, j \in DOMAIN list : list[i].id = list[j].id => i = j) =>
                /\ \A i \in DOMAIN list :
                      Cardinality({cell \in HeatRows \X (1..3) :
                                      i \in Qualifying(list, cell[1], cell[2])}) = 1
                /\ \A row \in HeatRows, col \in 1..3 :
                      \E padding \in 0..10 :
                         CellText(row, col)
                             = ListedIds(list, Qualifying(list, row, col), 3) \o spaces(padding)

\* A heatmap of four failure modes of high severity and low occurrence, of
\* which the cell shows the first three.
C26_Witness ==
    /\ HeatmapReturned
    /\ Len(call.args[1]) = 4
    /\ Cardinality(Qualifying(call.args[1], 8, 1)) = 4
    /\ CellText(8, 1) = "RISK-001, RISK-002, RISK-003"

RECURSIVE Width(_)
\* The number of characters of a line.
Width(line) == IF line = <<>> THEN 0 ELSE Len(Head(line)) + Width(Tail(line))

\* C27: every row of the returned grid, the rows of cells included, is as
\* long as the border rows.
C27_FixedWidth ==
    HeatmapReturned =>
        \A row \in 3..18 : Width(call.ret.value[row]) = Width(call.ret.value[6])

\* ------------------------------------- one call after another (SpecCalls)

\* The texts analysed one after the other.
CallTexts ==
    {<<"with">>, <<"api">>, <<"API", "cache">>, <<"queue">>,
     <<"Redis", "Cache", "database", "api">>}

\* The readings of the clock: new Date().toISOString() of two calls.
ClockReadings == {Now, "2025-01-04T10:00:01.000Z"}

\* The call before this one, as its caller saw it.
Returned(in, result) ==
    [fn |-> "analyzeArchitecture", args |-> <<in>>, done |-> TRUE, ret |-> Return(result)]

InitCalls ==
    /\ apiKey = ""
    /\ AnalyzerIdle
    /\ call = NoCall

\* A riskIndex that lives on between the calls.
CallDemo_sharedRiskIndex ==
    /\ pc = "idle"
    /\ apiKey = ""
    /\ \E architecture \in CallTexts, depth \in Depths, now \in ClockReadings :
          LET before == IF call.fn = "analyzeArchitecture"
                        THEN call.ret.value.summary.totalRisks ELSE 0
              list == Numbered(ComponentEntries(Unique(extractComponents(architecture)))
                                   \o GeneralEntries, before + 1)
              kept == slice(sortByRpnDescending(list), limits(depth))
          IN  /\ input' = [architecture |-> architecture, depth |-> depth]
              /\ assembled' = list
              /\ outcome' = Succeeded([summary |-> summaryOf(kept),
                                       failureModes |-> kept,
                                       recommendations |-> demoRecommendations,
                                       analysisDepth |-> depth,
                                       timestamp |-> now])
    /\ response' = NoResponse
    /\ requests' = 0
    /\ pc' = "done"
    /\ UNCHANGED <<apiKey, call>>

\* analyzeArchitecture without ANTHROPIC_API_KEY, called after any number of
\* earlier calls: every array and the riskIndex are locals of
\* generateDemoAnalysis, made anew.
CallDemo ==
    /\ pc = "idle"
    /\ apiKey = ""
    /\ \E architecture \in CallTexts, depth \in Depths, now \in ClockReadings :
          /\ input' = [architecture |-> architecture, depth |-> depth]
          /\ assembled' = demoFailureModes(architecture)
          /\ outcome' = Succeeded(generateDemoAnalysis(input', now))
    /\ response' = NoResponse
    /\ requests' = 0
    /\ pc' = "done"
    /\ UNCHANGED <<apiKey, call>>

\* The caller takes the result; the next call finds nothing of this one but
\* what the caller holds.
ReturnDemo ==
    /\ pc = "done"
    /\ call' = Returned(input, outcome.result)
    /\ pc' = "idle"
    /\ input' = NoInput
    /\ response' = NoResponse
    /\ assembled' = <<>>
    /\ outcome' = NoOutcome
    /\ requests' = 0
    /\ UNCHANGED apiKey

NextCalls ==
    \/ CallDemo
    \/ ReturnDemo

SpecCalls == InitCalls /\ [][NextCalls]_vars

\* A call that follows another one has returned.
SecondReturned == pc = "done" /\ call.fn = "analyzeArchitecture"

====
